---- MODULE Spec2Model ----
(***************************************************************************)
(* Model of the restep `#[endpoint(...)]` attribute macro:                 *)
(*   src/src/lib.rs       endpoint, parse_item (parses!)                   *)
(*   src/src/endpoint.rs  parse_attr, quote_fn_endpoint, embed,            *)
(*                        parse_endpoint, extract_path_params              *)
(* Strings are sequences of one-character strings.  Option<T> is a         *)
(* sequence of length at most one (<<>> is None, <<v>> is Some(v)).        *)
(***************************************************************************)
EXTENDS Integers, Sequences, FiniteSets, TLC

VARIABLES attr, item, pc, attempts, body_item, args, endpoint,
          pos, result, current, is_dyn, path_params,
          eargs, fn_name, ident_calls, fn_endpoint, output, panic_at

vars == <<attr, item, pc, attempts, body_item, args, endpoint,
          pos, result, current, is_dyn, path_params,
          eargs, fn_name, ident_calls, fn_endpoint, output, panic_at>>

\* ---------------------------------------------------------------- bounds
MaxScanLen == 6
MaxLen == 2
MaxKeyed == 2
MaxBody == 2

SeqsUpTo(S, n) == UNION {[1..k -> S] : k \in 0..n}

\* ------------------------------------------------------------ characters
Chars == {"{", "}", "a", "/"}
Letters == {"a", "b", "e", "n", "d", "p", "o", "i", "t", "f", "P", "B", "_"}
Digits == {"1"}

None == <<>>
Some(v) == <<v>>

\* positions of the braces of a string
Opens(t) == {i \in 1..Len(t) : t[i] = "{"}
Closes(t) == {i \in 1..Len(t) : t[i] = "}"}
Braces(t) == Opens(t) \cup Closes(t)
NoBraceBetween(t, i, j) == \A k \in Braces(t) : ~(i < k /\ k < j)

\* ------------------------------------------------------ results, errors
Ok(v) == [ok |-> TRUE, v |-> Some(v), errs |-> <<>>]
Err(es) == [ok |-> FALSE, v |-> None, errs |-> es]
DarlingError(kind, at) == [kind |-> kind, at |-> at]

\* ------------------------------------------------- attribute arguments
\* syn::NestedMeta: a bare literal or a `key = literal` pair
Lit(lit, value) == [kind |-> "Lit", key |-> "", lit |-> lit, value |-> value]
NameValue(key, lit, value) ==
    [kind |-> "NameValue", key |-> key, lit |-> lit, value |-> value]

\* <String as FromMeta>::from_value: only a string literal converts
String_from_value(m) ==
    IF m.lit = "Str" THEN Ok(m.value)
    ELSE Err(<<DarlingError("unexpected_type", m.key)>>)

\* <String as FromMeta>::from_nested_meta: a literal goes to from_value,
\* a `key = literal` meta goes to from_meta, which reads the literal too
String_from_nested_meta(m) ==
    CASE m.kind = "Lit" -> String_from_value(m)
      [] m.kind = "NameValue" -> String_from_value(m)

parse_endpoint(list) ==
    IF Len(list) = 0 THEN Err(<<DarlingError("missing_field", "endpoint")>>)
    ELSE String_from_nested_meta(list[1])

\* ----------------------------------------------------------- identifiers
IsIdent(s) ==
    /\ Len(s) > 0
    /\ s[1] \in Letters
    /\ \A i \in 1..Len(s) : s[i] \in Letters \cup Digits

\* syn::Ident::from_string(..).unwrap(): the identifier spelled s, or a panic
Ident_from_string(s) == [ok |-> IsIdent(s), v |-> IF IsIdent(s) THEN Some(s) ELSE None]

\* length of the longest prefix of s made of identifier characters
RECURSIVE IdentPrefixLen(_)
IdentPrefixLen(s) ==
    IF Len(s) > 0 /\ s[1] \in Letters \cup Digits
    THEN 1 + IdentPrefixLen(Tail(s)) ELSE 0

\* <TypePath as FromMeta>::from_string: identifiers separated by `::`
RECURSIVE TypePath_from_string(_)
TypePath_from_string(s) ==
    LET n == IdentPrefixLen(s)
        seg == SubSeq(s, 1, n)
        rest == SubSeq(s, n + 1, Len(s))
    IN IF ~IsIdent(seg) THEN Err(<<DarlingError("unknown_value", "params")>>)
       ELSE IF rest = <<>> THEN Ok(<<seg>>)
       ELSE IF Len(rest) > 2 /\ rest[1] = ":" /\ rest[2] = ":"
            THEN LET more == TypePath_from_string(SubSeq(rest, 3, Len(rest)))
                 IN IF more.ok THEN Ok(<<seg>> \o more.v[1]) ELSE more
            ELSE Err(<<DarlingError("unknown_value", "params")>>)

\* syn::Path::get_ident: the single segment of a one-segment path
get_ident(path) == IF Len(path) = 1 THEN Some(path[1]) ELSE None

\* default_name returning another identifier
default_name_other == <<"p", "a", "t">>

default_name == <<"e", "n", "d", "p", "o", "i", "n", "t">>

\* #[derive(FromMeta)] struct EndpointArgs: one pass over all items,
\* errors accumulated.  Bare literals are skipped: from_list is given the
\* whole list, template literal included, and the documented invocations
\* (lib.rs 12, 28, 44) are accepted.
FromListInit ==
    [params_seen |-> FALSE, params |-> None,
     name_seen |-> FALSE, name |-> None, errs |-> <<>>]

FromListItem(acc, m) ==
    IF m.kind = "Lit" THEN acc
    ELSE CASE m.key = "params" ->
                IF acc.params_seen
                THEN [acc EXCEPT !.errs = Append(@, DarlingError("duplicate_field", "params"))]
                ELSE LET r == IF m.lit = "Str" THEN TypePath_from_string(m.value)
                              ELSE Err(<<DarlingError("unexpected_type", "params")>>)
                     IN [acc EXCEPT !.params_seen = TRUE, !.params = r.v,
                                    !.errs = @ \o r.errs]
           [] m.key = "name" ->
                IF acc.name_seen
                THEN [acc EXCEPT !.errs = Append(@, DarlingError("duplicate_field", "name"))]
                ELSE LET r == String_from_value(m)
                     IN [acc EXCEPT !.name_seen = TRUE, !.name = r.v,
                                    !.errs = @ \o r.errs]
           [] OTHER ->
                [acc EXCEPT !.errs = Append(@, DarlingError("unknown_field", m.key))]

RECURSIVE FromListFold(_, _)
FromListFold(acc, list) ==
    IF list = <<>> THEN acc
    ELSE FromListFold(FromListItem(acc, Head(list)), Tail(list))

EndpointArgs_from_list(list) ==
    LET acc == FromListFold(FromListInit, list)
    IN IF acc.errs # <<>> THEN Err(acc.errs)
       ELSE Ok([params |-> acc.params,
                name |-> IF acc.name_seen THEN acc.name[1] ELSE default_name])

\* ----------------------------------------------------------- host tokens
\* syn::parse::<ItemImpl> / syn::parse::<ItemFn> on the raw host tokens
syn_parse_item(ty, tokens) ==
    IF (ty = "ItemImpl" /\ tokens.kind = "impl") \/ (ty = "ItemFn" /\ tokens.kind = "fn")
    THEN Ok([shape |-> ty, elems |-> tokens.elems])
    ELSE Err(<<[kind |-> "syn_parse", at |-> ty]>>)

\* parses!(item, (ItemImpl as BodyItem::ItemImpl), (ItemFn as BodyItem::ItemFn)):
\* the attempts made, and the first success or the last error
RECURSIVE parses(_, _, _, _)
parses(tokens, tys, tried, err) ==
    IF tys = <<>> THEN [tried |-> tried, res |-> Err(err)]
    ELSE LET r == syn_parse_item(Head(tys), tokens)
         IN IF r.ok THEN [tried |-> Append(tried, Head(tys)), res |-> r]
            ELSE parses(tokens, Tail(tys), Append(tried, Head(tys)), r.errs)

\* parse_item trying ItemFn before ItemImpl
parse_item_fn_first(tokens) == parses(tokens, <<"ItemFn", "ItemImpl">>, <<>>, <<>>)

parse_item(tokens) == parses(tokens, <<"ItemImpl", "ItemFn">>, <<>>, <<>>)

\* ------------------------------------------------- extract_path_params
\* ScanChar with the buffer copied instead of drained at `}`
ScanChar_keep(st, c) ==
    CASE c = "{" -> [st EXCEPT !.is_dyn = TRUE]
      [] c = "}" -> [is_dyn |-> FALSE,
                     result |-> Append(st.result, st.current),
                     current |-> st.current]
      [] c \notin {"{", "}"} /\ st.is_dyn ->
                    [st EXCEPT !.current = Append(@, c)]
      [] OTHER -> st

\* ScanChar with the buffer cleared at `{`
ScanChar_reset(st, c) ==
    CASE c = "{" -> [st EXCEPT !.is_dyn = TRUE, !.current = <<>>]
      [] c = "}" -> [is_dyn |-> FALSE,
                     result |-> Append(st.result, st.current),
                     current |-> <<>>]
      [] c \notin {"{", "}"} /\ st.is_dyn ->
                    [st EXCEPT !.current = Append(@, c)]
      [] OTHER -> st

\* One iteration of the `for char in endpoint.chars()` loop body.
ScanChar(st, c) ==
    CASE c = "{" -> [st EXCEPT !.is_dyn = TRUE]
      [] c = "}" -> [is_dyn |-> FALSE,
                     result |-> Append(st.result, st.current),
                     current |-> <<>>]
      [] c \notin {"{", "}"} /\ st.is_dyn ->
                    [st EXCEPT !.current = Append(@, c)]
      [] OTHER -> st

extract_path_params_loop ==
    /\ pc = "scan"
    /\ pos < Len(endpoint[1])
    /\ LET st == ScanChar([is_dyn |-> is_dyn, result |-> result,
                           current |-> current], endpoint[1][pos + 1])
       IN /\ is_dyn' = st.is_dyn
          /\ result' = st.result
          /\ current' = st.current
    /\ pos' = pos + 1
    /\ UNCHANGED <<attr, item, pc, attempts, body_item, args, endpoint,
                   path_params, eargs, fn_name, ident_calls, fn_endpoint,
                   output, panic_at>>

\* `Ok(result)`; the caller binds it to path_params (the identifier map
\* built from it is lazy and does nothing yet).
extract_path_params_return ==
    /\ pc = "scan"
    /\ pos = Len(endpoint[1])
    /\ path_params' = Some(result)
    /\ pc' = "from_list"
    /\ UNCHANGED <<attr, item, attempts, body_item, args, endpoint,
                   pos, result, current, is_dyn, eargs, fn_name,
                   ident_calls, fn_endpoint, output, panic_at>>

\* ---------------------------------------------------- quote_fn_endpoint
\* tokens of the synthesized function:
\*   fn #name(params: &#params) -> String {
\*       let #lets = &params.#lets; ...      format!(#template, #fmtargs = #fmtargs, ...) }
FnTokens(name, params_ty, lets, fmtargs, template) ==
    [kind |-> "fn", name |-> name, params |-> params_ty, lets |-> lets,
     fmtargs |-> fmtargs, template |-> template]

\* darling::Error::write_errors: one compile_error! per flattened error
ErrorTokens(errs) == [kind |-> "errors", msgs |-> errs]

\* first element on which Ident::from_string(..).unwrap() panics, 0 if none
FirstPanic(names) ==
    IF \E i \in 1..Len(names) : ~Ident_from_string(names[i]).ok
    THEN CHOOSE i \in 1..Len(names) :
            /\ ~Ident_from_string(names[i]).ok
            /\ \A j \in 1..(i - 1) : Ident_from_string(names[j]).ok
    ELSE 0

Idents(names) == [i \in 1..Len(names) |-> Ident_from_string(names[i]).v[1]]

\* quote_fn with the identifier map collected eagerly, before the branch
quote_fn_eager(template, names, name, ea) ==
    LET k == FirstPanic(names)
    IN IF k # 0
       THEN [panic |-> Some("path_params"), calls |-> SubSeq(names, 1, k),
             tokens |-> None]
       ELSE IF ea.params # None
       THEN LET params_ty == get_ident(ea.params[1])
            IN IF params_ty = None
               THEN [panic |-> Some("params_ty"), calls |-> names, tokens |-> None]
               ELSE [panic |-> None, calls |-> names,
                     tokens |-> Some([kind |-> "fn", name |-> name,
                                      params |-> params_ty, lets |-> names,
                                      fmtargs |-> names, template |-> template])]
       ELSE [panic |-> None, calls |-> names,
             tokens |-> Some([kind |-> "fn", name |-> name, params |-> None,
                              lets |-> <<>>, fmtargs |-> <<>>,
                              template |-> template])]

\* the `if let Some(params) = args.params { quote!{..} } else { quote!{..} }`
\* part.  path_params / path_params2 are lazy maps: the closure runs only
\* when a quote! repetition pulls from them.
quote_fn(template, names, name, ea) ==
    IF ea.params # None
    THEN LET params_ty == get_ident(ea.params[1])
             k == FirstPanic(names)
         IN IF params_ty = None
            THEN [panic |-> Some("params_ty"), calls |-> <<>>, tokens |-> None]
            ELSE IF k # 0
            THEN [panic |-> Some("path_params"), calls |-> SubSeq(names, 1, k),
                  tokens |-> None]
            ELSE [panic |-> None, calls |-> names \o names,
                  tokens |-> Some(FnTokens(name, params_ty, Idents(names),
                                           Idents(names), template))]
    ELSE [panic |-> None, calls |-> <<>>,
          tokens |-> Some(FnTokens(name, None, <<>>, <<>>, template))]

\* ---------------------------------------------------------------- embed
\* syn::parse::<Stmt>: an item fn, or a single brace-delimited macro call
syn_parse_Stmt(tokens) ==
    tokens.kind = "fn" \/ (tokens.kind = "errors" /\ Len(tokens.msgs) = 1)

\* syn::parse::<ImplItemMethod>: only a fn
syn_parse_ImplItemMethod(tokens) == tokens.kind = "fn"

HostTokens(shape, elems) == [kind |-> "host", shape |-> shape, elems |-> elems]
CompileError(errs) == [kind |-> "compile_error", msgs |-> errs]

\* embed pushing the statement at the end of a function body
embed_push_back(tokens, bi) ==
    CASE bi.shape = "ItemFn" ->
            IF syn_parse_Stmt(tokens)
            THEN [panic |-> FALSE, out |-> Some(HostTokens(bi.shape, Append(bi.elems, tokens)))]
            ELSE [panic |-> TRUE, out |-> None]
      [] bi.shape = "ItemImpl" ->
            IF syn_parse_ImplItemMethod(tokens)
            THEN [panic |-> FALSE, out |-> Some(HostTokens(bi.shape, Append(bi.elems, tokens)))]
            ELSE [panic |-> TRUE, out |-> None]

embed(tokens, bi) ==
    CASE bi.shape = "ItemFn" ->
            IF syn_parse_Stmt(tokens)
            THEN [panic |-> FALSE, out |-> Some(HostTokens(bi.shape, <<tokens>> \o bi.elems))]
            ELSE [panic |-> TRUE, out |-> None]
      [] bi.shape = "ItemImpl" ->
            IF syn_parse_ImplItemMethod(tokens)
            THEN [panic |-> FALSE, out |-> Some(HostTokens(bi.shape, Append(bi.elems, tokens)))]
            ELSE [panic |-> TRUE, out |-> None]

\* ------------------------------------------------------- generated code
\* format!(template, name = value, ...) as the generated function runs it:
\* literal text is copied, `{{` and `}}` are escapes, `{name}` is replaced
\* by the value of the named argument; anything else does not compile.
RECURSIVE format(_, _, _)
format(t, names, vals) ==
    IF t = <<>> THEN Ok(<<>>)
    ELSE IF Len(t) > 1 /\ t[1] \in {"{", "}"} /\ t[2] = t[1]
    THEN LET rest == format(SubSeq(t, 3, Len(t)), names, vals)
         IN IF rest.ok THEN Ok(<<t[1]>> \o rest.v[1]) ELSE rest
    ELSE IF t[1] = "}" \/ (t[1] = "{" /\ \A j \in 1..Len(t) : t[j] # "}")
    THEN Err(<<[kind |-> "format", at |-> "template"]>>)
    ELSE IF t[1] = "{"
    THEN LET j == CHOOSE j \in 1..Len(t) :
                     t[j] = "}" /\ \A i \in 1..(j - 1) : t[i] # "}"
             nm == SubSeq(t, 2, j - 1)
             rest == format(SubSeq(t, j + 1, Len(t)), names, vals)
         IN IF (\E i \in 1..Len(names) : names[i] = nm) /\ nm \in DOMAIN vals
            THEN IF rest.ok THEN Ok(vals[nm] \o rest.v[1]) ELSE rest
            ELSE Err(<<[kind |-> "format", at |-> "argument"]>>)
    ELSE LET rest == format(Tail(t), names, vals)
         IN IF rest.ok THEN Ok(<<t[1]>> \o rest.v[1]) ELSE rest

\* --------------------------------------------------------------- inputs
ExampleTemplates ==
    { <<"{", "a", "}">>, <<"/", "{", "a", "}">>, <<"{", "/", "}">>,
      <<"{", "a", "}", "{", "a", "}">>,
      <<"/", "{", "a", "}", "/", "{", "b", "}">>,
      <<"{", "b", "}", "{", "a", "}", "{", "b", "}">> }

Templates == SeqsUpTo(Chars, MaxLen) \cup ExampleTemplates

KeyedItems ==
    { NameValue("name", "Str", <<"f">>),
      NameValue("name", "Str", <<"1">>),
      NameValue("name", "Int", <<"1">>),
      NameValue("params", "Str", <<"P">>),
      NameValue("params", "Str", <<"a", ":", ":", "B">>),
      NameValue("params", "Str", <<"1">>),
      NameValue("other", "Str", <<"f">>) }

Firsts ==
    {<<>>, <<Lit("Int", <<"1">>)>>} \cup {<<Lit("Str", t)>> : t \in Templates}

ArgLists == {f \o r : f \in Firsts, r \in SeqsUpTo(KeyedItems, MaxKeyed)}

\* attribute tokens: not a meta list at all, or a parsed AttributeArgs
Attrs == {[ok |-> FALSE, list |-> <<>>]} \cup {[ok |-> TRUE, list |-> l] : l \in ArgLists}

Elems == {[kind |-> "orig", id |-> 1], [kind |-> "orig", id |-> 2]}

Items ==
    {[kind |-> "other", elems |-> <<>>]}
    \cup {[kind |-> k, elems |-> e] : k \in {"impl", "fn"}, e \in SeqsUpTo(Elems, MaxBody)}

\* -------------------------------------------------------------- actions
Init ==
    /\ attr \in Attrs
    /\ item \in Items
    /\ pc = "start"
    /\ attempts = <<>> /\ body_item = None /\ args = None /\ endpoint = None
    /\ pos = 0 /\ result = <<>> /\ current = <<>> /\ is_dyn = FALSE
    /\ path_params = None /\ eargs = None /\ fn_name = None
    /\ ident_calls = <<>> /\ fn_endpoint = None /\ output = None
    /\ panic_at = None

\* endpoint(): `let item = match parse_item(item) { .. }`
endpoint_parse_item ==
    /\ pc = "start"
    /\ LET r == parse_item(item)
       IN /\ attempts' = r.tried
          /\ IF r.res.ok
             THEN /\ body_item' = r.res.v
                  /\ pc' = "parse_macro_input"
                  /\ output' = output
             ELSE /\ body_item' = body_item
                  /\ pc' = "done"
                  /\ output' = Some(CompileError(r.res.errs))
    /\ UNCHANGED <<attr, item, args, endpoint, pos, result, current, is_dyn,
                   path_params, eargs, fn_name, ident_calls, fn_endpoint,
                   panic_at>>

\* endpoint(): `parse_macro_input!(attr as AttributeArgs)`
endpoint_parse_macro_input ==
    /\ pc = "parse_macro_input"
    /\ IF attr.ok
       THEN /\ args' = Some(attr.list)
            /\ pc' = "parse_endpoint"
            /\ output' = output
       ELSE /\ args' = args
            /\ pc' = "done"
            /\ output' = Some(CompileError(<<[kind |-> "syn_parse", at |-> "AttributeArgs"]>>))
    /\ UNCHANGED <<attr, item, attempts, body_item, endpoint, pos, result,
                   current, is_dyn, path_params, eargs, fn_name, ident_calls,
                   fn_endpoint, panic_at>>

\* quote_fn_endpoint: `let endpoint = unwrap_darling!(parse_endpoint(&args))`
quote_parse_endpoint ==
    /\ pc = "parse_endpoint"
    /\ LET r == parse_endpoint(args[1])
       IN IF r.ok
          THEN /\ endpoint' = r.v
               /\ pc' = "scan"
               /\ fn_endpoint' = fn_endpoint
          ELSE /\ endpoint' = endpoint
               /\ pc' = "embed"
               /\ fn_endpoint' = Some(ErrorTokens(r.errs))
    /\ UNCHANGED <<attr, item, attempts, body_item, args, pos, result, current,
                   is_dyn, path_params, eargs, fn_name, ident_calls, output,
                   panic_at>>

\* quote_fn_endpoint: `let args = unwrap_darling!(EndpointArgs::from_list(&args))`
quote_from_list ==
    /\ pc = "from_list"
    /\ args # None
    /\ LET r == EndpointArgs_from_list(args[1])
       IN IF r.ok
          THEN /\ eargs' = r.v
               /\ pc' = "fn_name"
               /\ fn_endpoint' = fn_endpoint
          ELSE /\ eargs' = eargs
               /\ pc' = "embed"
               /\ fn_endpoint' = Some(ErrorTokens(r.errs))
    /\ UNCHANGED <<attr, item, attempts, body_item, args, endpoint, pos, result,
                   current, is_dyn, path_params, fn_name, ident_calls, output,
                   panic_at>>

\* quote_fn_endpoint: `let fn_name = syn::Ident::from_string(&args.name).unwrap()`
quote_fn_name ==
    /\ pc = "fn_name"
    /\ LET r == Ident_from_string(eargs[1].name)
       IN IF r.ok
          THEN /\ fn_name' = r.v
               /\ pc' = "quote"
               /\ panic_at' = panic_at
          ELSE /\ fn_name' = fn_name
               /\ pc' = "panic"
               /\ panic_at' = Some("fn_name")
    /\ UNCHANGED <<attr, item, attempts, body_item, args, endpoint, pos, result,
                   current, is_dyn, path_params, eargs, ident_calls,
                   fn_endpoint, output>>

\* quote_fn_endpoint: the two quote! branches
quote_fn_body ==
    /\ pc = "quote"
    /\ LET r == quote_fn(endpoint[1], path_params[1], fn_name[1], eargs[1])
       IN /\ ident_calls' = r.calls
          /\ fn_endpoint' = r.tokens
          /\ panic_at' = r.panic
          /\ pc' = IF r.panic = None THEN "embed" ELSE "panic"
    /\ UNCHANGED <<attr, item, attempts, body_item, args, endpoint, pos, result,
                   current, is_dyn, path_params, eargs, fn_name, output>>

\* parse_attr: `embed(quote_fn_endpoint(args), item)`, returned by endpoint()
parse_attr_embed ==
    /\ pc = "embed"
    /\ LET r == embed(fn_endpoint[1], body_item[1])
       IN IF r.panic
          THEN /\ pc' = "panic"
               /\ panic_at' = Some("embed")
               /\ output' = output
          ELSE /\ pc' = "done"
               /\ panic_at' = panic_at
               /\ output' = r.out
    /\ UNCHANGED <<attr, item, attempts, body_item, args, endpoint, pos, result,
                   current, is_dyn, path_params, eargs, fn_name, ident_calls,
                   fn_endpoint>>

Next ==
    \/ endpoint_parse_item
    \/ endpoint_parse_macro_input
    \/ quote_parse_endpoint
    \/ extract_path_params_loop
    \/ extract_path_params_return
    \/ quote_from_list
    \/ quote_fn_name
    \/ quote_fn_body
    \/ parse_attr_embed

Spec == Init /\ [][Next]_vars


\* ------------------------------------------------------ pipeline claims
Synthesized == fn_endpoint # None /\ fn_endpoint[1].kind = "fn"
ConfigError == fn_endpoint # None /\ fn_endpoint[1].kind = "errors"
Finished == pc \in {"done", "panic"}

\* C2: host shapes are tried in the order TypeImpl, FreeFunction and the
\* first that parses wins: an impl block is TypeImpl without the function
\* parse being consulted, a function is FreeFunction after the impl parse
\* failed, and tokens that are neither end the invocation with the error
\* of the function parse, no host emitted, no argument parsing, no
\* synthesis.
C2_ShapeOrder ==
    pc # "start" =>
        /\ item.kind = "impl" =>
              /\ attempts = <<"ItemImpl">>
              /\ body_item = Some([shape |-> "ItemImpl", elems |-> item.elems])
        /\ item.kind = "fn" =>
              /\ attempts = <<"ItemImpl", "ItemFn">>
              /\ body_item = Some([shape |-> "ItemFn", elems |-> item.elems])
        /\ item.kind = "other" =>
              /\ attempts = <<"ItemImpl", "ItemFn">>
              /\ pc = "done"
              /\ output = Some([kind |-> "compile_error",
                                msgs |-> <<[kind |-> "syn_parse", at |-> "ItemFn"]>>])
              /\ body_item = None /\ args = None /\ endpoint = None
              /\ path_params = None /\ eargs = None /\ fn_endpoint = None

C2_Witness ==
    /\ pc = "done"
    /\ item.kind = "other"
    /\ attempts = <<"ItemImpl", "ItemFn">>
    /\ output # None /\ output[1].kind = "compile_error"

\* C3: when synthesis succeeds the splice inserts exactly one element and
\* changes nothing else: a function body s1..sn becomes
\* [synthesized, s1..sn], an impl member list m1..mn becomes
\* [m1..mn, synthesized]; the length is n+1.
C3_SpliceOneElement ==
    (pc = "done" /\ Synthesized) =>
        /\ output # None /\ output[1].kind = "host"
        /\ Len(output[1].elems) = Len(item.elems) + 1
        /\ item.kind = "fn" =>
              /\ output[1].shape = "ItemFn"
              /\ output[1].elems[1] = fn_endpoint[1]
              /\ \A i \in 1..Len(item.elems) : output[1].elems[i + 1] = item.elems[i]
        /\ item.kind = "impl" =>
              /\ output[1].shape = "ItemImpl"
              /\ output[1].elems[Len(item.elems) + 1] = fn_endpoint[1]
              /\ \A i \in 1..Len(item.elems) : output[1].elems[i] = item.elems[i]

C3_Witness ==
    /\ pc = "done" /\ Synthesized
    /\ item.kind = "fn"
    /\ Len(item.elems) = 2 /\ item.elems[1] # item.elems[2]
    /\ output[1].elems = <<fn_endpoint[1], item.elems[1], item.elems[2]>>

\* C4: for either host shape, when argument parsing detects a
\* configuration error the outcome is only the diagnostic: no host source
\* is emitted (neither the original nor one with something spliced in) and
\* the invocation does not panic.
C4_OnlyDiagnostic ==
    (ConfigError /\ Finished) =>
        /\ pc = "done"
        /\ output = Some(CompileError(fn_endpoint[1].msgs))

\* C5: the first argument is mandatory and must be a bare string literal:
\* an empty list fails with the missing-field error for `endpoint`, and a
\* first item in `key = value` form is rejected, its value is not taken as
\* the template.
C5_FirstArgBareLiteral ==
    (args # None /\ pc \notin {"start", "parse_macro_input", "parse_endpoint"}) =>
        /\ Len(args[1]) = 0 =>
              /\ endpoint = None
              /\ fn_endpoint = Some(ErrorTokens(<<DarlingError("missing_field", "endpoint")>>))
        /\ (Len(args[1]) > 0 /\ args[1][1].kind = "NameValue") =>
              /\ endpoint = None
              /\ ConfigError

RECURSIVE Dedup(_)
Dedup(names) ==
    IF names = <<>> THEN <<>>
    ELSE LET front == Dedup(SubSeq(names, 1, Len(names) - 1))
             last == names[Len(names)]
         IN IF \E i \in 1..Len(front) : front[i] = last THEN front
            ELSE Append(front, last)

\* C6: with `params` present the synthesized function has exactly one
\* `let p = &params.p` and one `p = p` format argument per distinct
\* placeholder name, in order of first appearance, also when a name occurs
\* more than once in the template.
C6_OneBindingPerName ==
    (Synthesized /\ fn_endpoint[1].params # None) =>
        /\ fn_endpoint[1].lets = Dedup(path_params[1])
        /\ fn_endpoint[1].fmtargs = Dedup(path_params[1])

\* C7: identifier construction never aborts: a placeholder name used with
\* `params`, or the value of `name`, that is not an identifier ends the
\* invocation with a diagnostic; no panic is reachable from it.
C7_IdentNeverPanics ==
    /\ (Finished /\ eargs # None
           /\ (\/ ~IsIdent(eargs[1].name)
               \/ (eargs[1].params # None
                     /\ \E i \in 1..Len(path_params[1]) : ~IsIdent(path_params[1][i]))))
          => (pc = "done" /\ output # None /\ output[1].kind = "compile_error")
    /\ ~(pc = "panic" /\ panic_at \in {Some("fn_name"), Some("path_params")})

\* C8: with `params` absent the synthesized function takes no argument and
\* formats the template with no substitution; the scanned placeholders are
\* ignored: no identifier is built from one, no error or panic comes from
\* one, whatever they are; a template without braces is returned
\* unchanged by the generated function.
C8_ParamlessIgnoresPlaceholders ==
    (pc \in {"embed", "done", "panic"} /\ fn_name # None /\ eargs[1].params = None) =>
        /\ pc # "panic" /\ panic_at = None
        /\ ident_calls = <<>>
        /\ Synthesized
        /\ fn_endpoint[1].params = None
        /\ fn_endpoint[1].lets = <<>> /\ fn_endpoint[1].fmtargs = <<>>
        /\ fn_endpoint[1].template = endpoint[1]
        /\ Braces(endpoint[1]) = {} =>
              format(fn_endpoint[1].template, fn_endpoint[1].fmtargs, <<>>).v
                  = Some(endpoint[1])

C8_Witness ==
    /\ pc = "done"
    /\ eargs # None /\ eargs[1].params = None
    /\ path_params = Some(<< <<"/">> >>)
    /\ Synthesized
    /\ output # None /\ output[1].kind = "host"

NameArgs == {i \in 1..Len(args[1]) :
                args[1][i].kind = "NameValue" /\ args[1][i].key = "name"}

\* C9: the synthesized function is named by the `name` argument when it
\* is given and `endpoint` when it is omitted, with or without `params`,
\* for both host shapes.
C9_FunctionName ==
    Synthesized =>
        fn_endpoint[1].name =
            IF NameArgs # {} THEN args[1][CHOOSE i \in NameArgs : TRUE].value
            ELSE <<"e", "n", "d", "p", "o", "i", "n", "t">>

C9_Witness ==
    /\ pc = "done" /\ Synthesized
    /\ NameArgs = {}
    /\ item.kind = "impl"
    /\ fn_endpoint[1].params # None
    /\ output[1].elems[Len(output[1].elems)].name
          = <<"e", "n", "d", "p", "o", "i", "n", "t">>

\* ------------------------------------------------ scanner specification
ScanInit ==
    /\ endpoint \in {Some(t) : t \in SeqsUpTo(Chars, MaxScanLen)}
    /\ pc = "scan"
    /\ pos = 0 /\ result = <<>> /\ current = <<>> /\ is_dyn = FALSE
    /\ attr = [ok |-> TRUE, list |-> <<>>]
    /\ item = [kind |-> "fn", elems |-> <<>>]
    /\ attempts = <<>> /\ body_item = None /\ args = None
    /\ path_params = None /\ eargs = None /\ fn_name = None
    /\ ident_calls = <<>> /\ fn_endpoint = None /\ output = None
    /\ panic_at = None

ScanNext == extract_path_params_loop \/ extract_path_params_return

ScanSpec == ScanInit /\ [][ScanNext]_vars /\ WF_vars(ScanNext)

\* ------------------------------------------------------ scanner claims

\* every `{` is closed before any other brace, every `}` has such a `{`
Balanced(t) ==
    /\ \A i \in Opens(t) : \E j \in Closes(t) : i < j /\ NoBraceBetween(t, i, j)
    /\ \A j \in Closes(t) : \E i \in Opens(t) : i < j /\ NoBraceBetween(t, i, j)

KthClose(t, k) ==
    CHOOSE j \in Closes(t) : Cardinality({x \in Closes(t) : x <= j}) = k

PairSubstrings(t) ==
    [k \in 1..Cardinality(Closes(t)) |->
        LET j == KthClose(t, k)
            i == CHOOSE o \in Opens(t) : o < j /\ NoBraceBetween(t, o, j)
        IN SubSeq(t, i + 1, j - 1)]

\* C1: for a template with balanced, non-nested braces the scan returns
\* exactly the substrings between each `{`/`}` pair, one per pair, in order
\* of appearance (duplicates and empty names kept; no braces, empty list).
C1_PairsExtracted ==
    (pc = "from_list" /\ Balanced(endpoint[1]))
        => path_params = Some(PairSubstrings(endpoint[1]))

C1_Witness ==
    /\ pc = "from_list"
    /\ endpoint[1] = <<"{", "a", "}", "{", "a", "}">>
    /\ path_params = Some(<< <<"a">>, <<"a">> >>)

KthSegment(t, k) ==
    SubSeq(t, (IF k = 1 THEN 0 ELSE KthClose(t, k - 1)) + 1, KthClose(t, k) - 1)

NotOpen(c) == c # "{"

\* what a segment (the text between two consecutive `}`) leaves in the
\* buffer: its non-`{` characters after its first `{`
Accumulated(seg) ==
    IF Opens(seg) = {} THEN <<>>
    ELSE LET first == CHOOSE i \in Opens(seg) : \A o \in Opens(seg) : i <= o
         IN SelectSeq(SubSeq(seg, first + 1, Len(seg)), NotOpen)

EntriesPerClose(t) ==
    [k \in 1..Cardinality(Closes(t)) |-> Accumulated(KthSegment(t, k))]

C10_Entries ==
    pc = "from_list" =>
        /\ path_params = Some(EntriesPerClose(endpoint[1]))
        /\ Len(path_params[1]) = Cardinality(Closes(endpoint[1]))
        /\ \A k \in 1..Len(path_params[1]) :
              /\ Braces(path_params[1][k]) = {}
              /\ (Opens(KthSegment(endpoint[1], k)) = {}
                     => path_params[1][k] = <<>>)
        /\ result = path_params[1]

\* C10: for every template, malformed ones included, the scan terminates
\* and returns one entry per `}`: text after the last `}` gives no entry, a
\* `}` with no open `{` gives an empty entry, text accumulated before a
\* second `{` is carried into the entry pushed at the next `}`, and no
\* entry contains a brace.
C10_OneEntryPerClose == [](C10_Entries) /\ <>(pc = "from_list")

C10_Witness ==
    /\ pc = "from_list"
    /\ endpoint[1] = <<"}", "{", "a", "{", "/", "}">>
    /\ path_params = Some(<< <<>>, <<"a", "/">> >>)

====
